---- MODULE Spec2Model ----
(***************************************************************************)
(* The URL shortener of src/apis.js: the two in-memory maps, the three     *)
(* request handlers (POST /shorturls, GET /shorturls/:shortcode,           *)
(* GET /:shortcode) cut at their await points, and the periodic cleanup.   *)
(* One action is one synchronous run of JavaScript between two awaits:     *)
(* the event loop runs such a segment to its end before anything else.     *)
(***************************************************************************)
EXTENDS Integers, Sequences, FiniteSets, Bags, TLC

\* ------------------------------------------------------------------ bounds
\* Request handlers that can be suspended at an await at the same time.
MaxInFlight == 2
\* Entry objects allocated by POST /shorturls in one behaviour.
MaxObjects == 2
\* Milliseconds the clock may advance between the two time reads of one
\* POST /shorturls (Date.now() at line 137, new Date() at line 142).
MaxDriftMs == 1
\* Redirects counted on one entry (accessCount has no bound in the code).
MaxAccess == 2

\* ------------------------------------------------------------- time, Date
\* validity * 60 * 1000 (line 137): milliseconds in a minute.
MsPerMinute == 60 * 1000

\* The largest time value a Date holds. ECMAScript's is 8.64e15 ms; it is scaled
\* down to stay inside TLC's 32-bit integers, and BigValidity below stands for
\* the integers whose expiry falls outside the range.
MaxDateMs == 1000 * 1000 * 1000

\* new Date(ms): a Date holds a time value, or NaN when ms is out of range.
InvalidDate == [valid |-> FALSE, ms |-> 0]
NewDate(ms) == IF ms > MaxDateMs THEN InvalidDate ELSE [valid |-> TRUE, ms |-> ms]

\* Mutant: >= for >.
DateGE(a, b) == a.valid /\ b.valid /\ a.ms >= b.ms
\* a > b on two Dates: both are converted to numbers, and any comparison with
\* NaN is false.
DateGT(a, b) == a.valid /\ b.valid /\ a.ms > b.ms

\* The instants the clock is observed at: the start, one millisecond later, and
\* one minute after that. An entry made at 0 for one minute expires at 60000 and
\* is past its expiry at 60001; one made at 1 expires at 60001 exactly.
TimePoints == { 0, 1, MsPerMinute + 1 }

\* ------------------------------------------------------------ short codes
\* chars of generateShortcode (line 29), one string per character.
chars ==
  << "A","B","C","D","E","F","G","H","I","J","K","L","M",
     "N","O","P","Q","R","S","T","U","V","W","X","Y","Z",
     "a","b","c","d","e","f","g","h","i","j","k","l","m",
     "n","o","p","q","r","s","t","u","v","w","x","y","z",
     "0","1","2","3","4","5","6","7","8","9" >>

\* The default length of a generated code (line 28).
DefaultLength == 6

\* generateShortcode(length = 6): draws[i] is Math.floor(Math.random() *
\* chars.length) of the i-th iteration, and charAt is 0-based.
generateShortcode(draws) == [ i \in 1..DefaultLength |-> chars[draws[i] + 1] ]

\* Mutant: Math.random() returning 0 every time.
GenDrawsZero == { <<0, 0, 0, 0, 0, 0>> }
\* The outcomes of the six random draws that the model lets happen: "health",
\* and "AAAAAA", "AAAAAB", ... A handler enters the loop with fewer than
\* MaxObjects codes in the store, so, as with the 62^6 codes of the program,
\* the draws always include a code the store does not hold.
GenDraws ==
  { <<33, 30, 26, 37, 45, 33>> } \cup { <<0, 0, 0, 0, 0, i>> : i \in 0..(MaxObjects - 2) }

\* The character class [a-zA-Z0-9] of the regular expression at line 49.
Alnum == { chars[i] : i \in 1..Len(chars) }

\* isValidShortcode: /^[a-zA-Z0-9]+$/ and 3 <= length <= 20.
isValidShortcode(shortcode) ==
  /\ Len(shortcode) >= 1
  /\ \A i \in 1..Len(shortcode) : shortcode[i] \in Alnum
  /\ Len(shortcode) >= 3
  /\ Len(shortcode) <= 20

\* Strings used as codes, as sequences of characters.
CodeAbc == << "a", "b", "c" >>
CodeHealth == << "h", "e", "a", "l", "t", "h" >>
CodeShorturls == << "s", "h", "o", "r", "t", "u", "r", "l", "s" >>
CodeTooShort == << "a", "b" >>
CodeBadChar == << "a", "-", "c" >>
CodeTooLong == [ i \in 1..21 |-> "a" ]
CodeEmpty == << >>

\* The shortcode field of a POST body: absent, or a string.
NoShortcode == [given |-> FALSE, val |-> CodeEmpty]
ShortcodeInputs ==
  { NoShortcode } \cup
  { [given |-> TRUE, val |-> c] :
      c \in { CodeAbc, CodeHealth, CodeTooShort, CodeBadChar, CodeTooLong, CodeEmpty } }

\* if (shortcode): undefined and the empty string are falsy.
Truthy(shortcode) == shortcode.given /\ shortcode.val # CodeEmpty

\* The :shortcode parameter of the two GET routes.
LookupCodes == { CodeAbc, CodeHealth, generateShortcode(<<0, 0, 0, 0, 0, 0>>), CodeShorturls }

\* GET /:shortcode, line 222: the names of the API paths are not looked up.
IsApiPath(shortcode) == shortcode = CodeShorturls \/ shortcode = CodeHealth

\* ------------------------------------------------------------------- URLs
UrlHttps == "https://example.com/a"
UrlHttp == "http://example.com/b"
UrlFtp == "ftp://example.com/c"
UrlNotAUrl == "not-a-url"
UrlEmpty == ""
UrlInputs == { UrlHttps, UrlHttp, UrlFtp, UrlNotAUrl, UrlEmpty }

\* new URL(string).protocol, "throws" when the string does not parse.
UrlProtocol(string) ==
  CASE string = UrlHttps -> "https:"
    [] string = UrlHttp -> "http:"
    [] string = UrlFtp -> "ftp:"
    [] OTHER -> "throws"

\* isValidUrl (lines 38-45).
isValidUrl(string) == UrlProtocol(string) \in { "http:", "https:" }

\* --------------------------------------------------------------- validity
\* The validity field of a POST body: absent, or a number num/den.
DefaultValidity == 30
BigValidity == 20 * 1000
NoValidity == [given |-> FALSE, num |-> 0, den |-> 1]
ValidityInputs ==
  { NoValidity } \cup
  { [given |-> TRUE, num |-> n, den |-> 1] : n \in { -1, 0, 1, BigValidity } } \cup
  { [given |-> TRUE, num |-> 3, den |-> 2] }

\* const { validity = 30 } = req.body
ValidityOf(v) == IF v.given THEN v ELSE [given |-> TRUE, num |-> DefaultValidity, den |-> 1]

\* Number.isInteger(validity)
IsInteger(v) == v.num % v.den = 0

\* !Number.isInteger(validity) || validity <= 0 (line 100)
ValidityRejected(v) == ~IsInteger(v) \/ v.num \div v.den <= 0

\* ------------------------------------------------------------------ state
VARIABLES
  now,             \* the wall clock, in milliseconds
  urlDatabase,     \* Map: shortcode -> the entry object (its index in heap)
  expiryDatabase,  \* Map: shortcode -> expiry Date
  heap,            \* the entry objects {originalUrl, createdAt, accessCount}
  reqs,            \* the handler invocations suspended at an await (a bag)
  spinning,        \* an invocation is inside the do-while of lines 131-133
  lastOp,          \* the segment that ran last: its inputs and what it sent
  redirects        \* per entry object: the 302 responses sent for it (history)

vars == << now, urlDatabase, expiryDatabase, heap, reqs, spinning, lastOp, redirects >>

\* Map operations.
EmptyMap == [ k \in {} |-> 0 ]
MapSet(m, k, v) == [ x \in DOMAIN m \cup {k} |-> IF x = k THEN v ELSE m[x] ]
MapDelete(m, k) == [ x \in DOMAIN m \ {k} |-> m[x] ]

\* A POST body.
Body(url, validity, shortcode) == [url |-> url, validity |-> validity, shortcode |-> shortcode]
NoBody == Body(UrlEmpty, NoValidity, NoShortcode)

\* A handler invocation: which handler, where it is suspended, the response it
\* will send after its await, and the locals its continuation reads. The
\* invocations in flight have no identity beyond this, so they form a bag.
Idle ==
  [ kind |-> "idle", pc |-> "idle", status |-> 0, message |-> "",
    shortcode |-> CodeEmpty, urlData |-> 0, expiryTime |-> InvalidDate,
    url |-> UrlEmpty, validity |-> NoValidity ]

Suspend(req) == reqs (+) SetToBag({req})
Resume(req) == reqs (-) SetToBag({req})
InFlight == BagToSet(reqs)

\* The return value of a function that returns nothing, and of one that
\* returns a number.
Undefined == [type |-> "undefined", val |-> 0]
Number(n) == [type |-> "number", val |-> n]

\* What the last segment did: op names the segment; req is the invocation it
\* left suspended (Idle when none); status, message and the fields after them
\* are the response when the segment sent one (status = 0 when it sent none);
\* body and shortcode are the request's inputs.
NoOp ==
  [ op |-> "init", req |-> Idle, body |-> NoBody, shortcode |-> CodeEmpty,
    status |-> 0, message |-> "", url |-> UrlEmpty, urlData |-> 0,
    accessCount |-> 0, createdAt |-> InvalidDate, expiry |-> InvalidDate,
    evicted |-> {}, logged |-> 0, ret |-> Undefined ]

Init ==
  /\ now = 0
  /\ urlDatabase = EmptyMap
  /\ expiryDatabase = EmptyMap
  /\ heap = << >>
  /\ reqs = EmptyBag
  /\ spinning = FALSE
  /\ lastOp = NoOp
  /\ redirects = << >>

\* A request is taken up while fewer than limit invocations are in flight and
\* the event loop is not held by the generation loop.
Accepting(limit) == ~spinning /\ BagCardinality(reqs) < limit

\* Mutant: the has() check skipped.
HasNothing(shortcode) == FALSE
\* urlDatabase.has(shortcode)
Has(shortcode) == shortcode \in DOMAIN urlDatabase

\* Mutant: the expiry never looked at.
isExpiredNever(shortcode) == FALSE
\* isExpired(shortcode), lines 53-57.
isExpired(shortcode) ==
  IF shortcode \notin DOMAIN expiryDatabase THEN TRUE
  ELSE DateGT(NewDate(now), expiryDatabase[shortcode])

\* ------------------------------------------------------- POST /shorturls
\* A 4xx return of lines 82-126: nothing is stored, the response follows the
\* awaited log call.
Reject(body, status, message) ==
  LET req == [Idle EXCEPT !.kind = "create", !.pc = "await",
                          !.status = status, !.message = message]
  IN
  /\ reqs' = Suspend(req)
  /\ lastOp' = [NoOp EXCEPT !.op = "createStart", !.req = req, !.body = body]
  /\ UNCHANGED << now, urlDatabase, expiryDatabase, heap, spinning, redirects >>

\* The response status lines 147-154 lead to: expiryTime.toISOString() at
\* line 149 throws a RangeError on an invalid Date, and the catch answers 500.
StoredStatus(expiryTime) == IF expiryTime.valid THEN 201 ELSE 500

\* Lines 136-149: the expiry is computed from a first reading of the clock,
\* createdAt is a second reading t2, and the entry goes into both maps. others
\* is the bag of the other invocations in flight.
Store(others, body, finalShortcode, url, validity, t2) ==
  LET expiryTime == NewDate(now + (validity.num \div validity.den) * 60 * 1000)
      urlData == [originalUrl |-> url, createdAt |-> NewDate(t2), accessCount |-> 0]
      req == [Idle EXCEPT !.kind = "create", !.pc = "await",
                          !.status = StoredStatus(expiryTime),
                          !.shortcode = finalShortcode,
                          !.expiryTime = expiryTime, !.url = url]
  IN
  /\ Len(heap) < MaxObjects
  /\ heap' = Append(heap, urlData)
  /\ redirects' = Append(redirects, 0)
  /\ urlDatabase' = MapSet(urlDatabase, finalShortcode, Len(heap) + 1)
  /\ expiryDatabase' = MapSet(expiryDatabase, finalShortcode, expiryTime)
  /\ now' = t2
  /\ spinning' = FALSE
  /\ reqs' = others (+) SetToBag({req})
  /\ lastOp' = [NoOp EXCEPT !.op = "createStart", !.req = req, !.body = body,
                            !.shortcode = finalShortcode, !.urlData = Len(heap) + 1]

\* The clock readings a segment that started at now can make later on.
LaterReadings == { t \in TimePoints : t >= now /\ t - now <= MaxDriftMs }

\* One iteration of the do-while of lines 131-133 and, when the code is free,
\* the rest of the segment.
Generate(others, body, url, validity, draws) ==
  LET finalShortcode == generateShortcode(draws)
      req == [Idle EXCEPT !.kind = "create", !.pc = "loop",
                          !.url = url, !.validity = validity]
  IN
  IF Has(finalShortcode)
  THEN /\ spinning' = TRUE
       /\ reqs' = others (+) SetToBag({req})
       /\ lastOp' = [NoOp EXCEPT !.op = "generateAgain", !.req = req, !.body = body,
                                 !.shortcode = finalShortcode]
       /\ UNCHANGED << now, urlDatabase, expiryDatabase, heap, redirects >>
  ELSE \E t2 \in LaterReadings : Store(others, body, finalShortcode, url, validity, t2)

\* The handler up to its first await (or into the generation loop).
CreateStart(limit, body) ==
  /\ Accepting(limit)
  /\ LET url == body.url
         validity == ValidityOf(body.validity)
         shortcode == body.shortcode
     IN
     IF url = UrlEmpty THEN Reject(body, 400, "URL is required")
     ELSE IF ~isValidUrl(url) THEN Reject(body, 400, "Invalid URL format")
     ELSE IF ValidityRejected(validity)
       THEN Reject(body, 400, "Validity must be a positive integer representing minutes")
     ELSE IF Truthy(shortcode)
       THEN IF ~isValidShortcode(shortcode.val)
              THEN Reject(body, 400, "Shortcode must be alphanumeric, 3-20 characters long")
            ELSE IF Has(shortcode.val)
              THEN Reject(body, 409, "Shortcode already exists")
            ELSE \E t2 \in LaterReadings : Store(reqs, body, shortcode.val, url, validity, t2)
     ELSE /\ Len(heap) < MaxObjects
          /\ \E draws \in GenDraws : Generate(reqs, body, url, validity, draws)

\* The do-while going round once more: nothing else runs meanwhile.
GenerateAgain ==
  /\ spinning
  /\ \E req \in InFlight :
       /\ req.pc = "loop"
       /\ \E draws \in GenDraws :
            Generate(Resume(req), Body(req.url, req.validity, NoShortcode),
                     req.url, req.validity, draws)

\* toISOString of a valid Date: the time value, to the millisecond.
ToISOString(d) == [valid |-> TRUE, ms |-> d.ms]

\* After the await: the 4xx/409/500 response, or 201 with shortLink and expiry
\* (lastOp.url is the url the request gave, not a field of the response).
CreateFinish(req) ==
  /\ ~spinning
  /\ req.kind = "create" /\ req.pc = "await"
  /\ reqs' = Resume(req)
  /\ lastOp' =
       IF req.status = 201
       THEN [NoOp EXCEPT !.op = "createDone", !.status = 201,
                         !.shortcode = req.shortcode, !.url = req.url,
                         !.expiry = ToISOString(req.expiryTime)]
       ELSE [NoOp EXCEPT !.op = "createDone", !.status = req.status,
                         !.message = req.message]
  /\ UNCHANGED << now, urlDatabase, expiryDatabase, heap, spinning, redirects >>

\* --------------------------------------------- GET /shorturls/:shortcode
\* Mutant: the statistics handler counting its own reads as accesses.
StatsStartCounting(limit, shortcode) ==
  /\ Accepting(limit)
  /\ Has(shortcode) /\ ~isExpired(shortcode)
  /\ heap[urlDatabase[shortcode]].accessCount < MaxAccess
  /\ heap' = [heap EXCEPT ![urlDatabase[shortcode]].accessCount = @ + 1]
  /\ LET req == [Idle EXCEPT !.kind = "stats", !.pc = "await", !.status = 200,
                             !.shortcode = shortcode,
                             !.urlData = urlDatabase[shortcode],
                             !.expiryTime = expiryDatabase[shortcode]]
     IN /\ reqs' = Suspend(req)
        /\ lastOp' = [NoOp EXCEPT !.op = "statsStart", !.req = req, !.shortcode = shortcode]
  /\ UNCHANGED << now, urlDatabase, expiryDatabase, spinning, redirects >>

\* Lines 168-192: not found, expired (the entry leaves both maps) or the two
\* map reads; each path then awaits the log call.
StatsStart(limit, shortcode) ==
  LET req ==
        IF ~Has(shortcode)
        THEN [Idle EXCEPT !.kind = "stats", !.pc = "await", !.status = 404,
                          !.message = "Shortcode not found"]
        ELSE IF isExpired(shortcode)
        THEN [Idle EXCEPT !.kind = "stats", !.pc = "await", !.status = 410,
                          !.message = "Short URL has expired"]
        ELSE [Idle EXCEPT !.kind = "stats", !.pc = "await", !.status = 200,
                          !.shortcode = shortcode,
                          !.urlData = urlDatabase[shortcode],
                          !.expiryTime = expiryDatabase[shortcode]]
  IN
  /\ Accepting(limit)
  /\ reqs' = Suspend(req)
  /\ lastOp' = [NoOp EXCEPT !.op = "statsStart", !.req = req, !.shortcode = shortcode]
  /\ IF Has(shortcode) /\ isExpired(shortcode)
     THEN /\ urlDatabase' = MapDelete(urlDatabase, shortcode)
          /\ expiryDatabase' = MapDelete(expiryDatabase, shortcode)
     ELSE UNCHANGED << urlDatabase, expiryDatabase >>
  /\ UNCHANGED << now, heap, spinning, redirects >>

\* JSON.stringify of a Date: its ISO string, or null for an invalid Date.
JsonNull == [valid |-> FALSE, ms |-> 0]
ToJSON(d) == IF d.valid THEN ToISOString(d) ELSE JsonNull

\* Mutant: the continuation fetching the entry from the map again, and ending
\* in the catch block when the code is gone.
StatsFinishRereads(req) ==
  /\ ~spinning
  /\ req.kind = "stats" /\ req.pc = "await"
  /\ reqs' = Resume(req)
  /\ lastOp' =
       IF req.status = 200 /\ Has(req.shortcode)
       THEN [NoOp EXCEPT !.op = "statsDone", !.status = 200,
                         !.shortcode = req.shortcode,
                         !.urlData = urlDatabase[req.shortcode],
                         !.url = heap[urlDatabase[req.shortcode]].originalUrl,
                         !.createdAt = heap[urlDatabase[req.shortcode]].createdAt,
                         !.expiry = expiryDatabase[req.shortcode],
                         !.accessCount = heap[urlDatabase[req.shortcode]].accessCount]
       ELSE IF req.status = 200
       THEN [NoOp EXCEPT !.op = "statsDone", !.status = 500,
                         !.message = "An error occurred while retrieving statistics"]
       ELSE [NoOp EXCEPT !.op = "statsDone", !.status = req.status,
                         !.message = req.message]
  /\ UNCHANGED << now, urlDatabase, expiryDatabase, heap, spinning, redirects >>

\* Lines 194-200 (or the pending error): the fields are read from the entry
\* object when the response is built.
StatsFinish(req) ==
  /\ ~spinning
  /\ req.kind = "stats" /\ req.pc = "await"
  /\ reqs' = Resume(req)
  /\ lastOp' =
       IF req.status = 200
       THEN [NoOp EXCEPT !.op = "statsDone", !.status = 200,
                         !.shortcode = req.shortcode,
                         !.urlData = req.urlData,
                         !.url = heap[req.urlData].originalUrl,
                         !.createdAt = ToISOString(heap[req.urlData].createdAt),
                         !.expiry = ToJSON(req.expiryTime),
                         !.accessCount = heap[req.urlData].accessCount]
       ELSE [NoOp EXCEPT !.op = "statsDone", !.status = req.status,
                         !.message = req.message]
  /\ UNCHANGED << now, urlDatabase, expiryDatabase, heap, spinning, redirects >>

\* ------------------------------------------------------- GET /:shortcode
\* Mutants: the count set rather than incremented; the count computed from a
\* value read before the other handlers in flight had added theirs.
IncrementSetsOne(h, urlData) == [h EXCEPT ![urlData].accessCount = 1]
IncrementStale(h, urlData) == [h EXCEPT ![urlData].accessCount = redirects[urlData] + 1]
\* Mutant: the count raised by 2.
IncrementTwice(h, urlData) == [h EXCEPT ![urlData].accessCount = @ + 2]
\* urlData.accessCount++ and urlDatabase.set(shortcode, urlData), lines 251-252:
\* the entry object is updated in place and the map keeps pointing at it.
Increment(h, urlData) == [h EXCEPT ![urlData].accessCount = @ + 1]

\* GET /<shortcode> up to its first await. GET /health is taken by the health
\* route registered before /:shortcode (lines 212-214) and answered 200 OK; in
\* /:shortcode (lines 219-254) an API path name is answered 404 at once, and
\* the other paths await the log call before they respond.
ResolveStart(limit, shortcode) ==
  /\ Accepting(limit)
  /\ IF shortcode = CodeHealth
     THEN /\ lastOp' = [NoOp EXCEPT !.op = "health",
                                    !.shortcode = shortcode, !.status = 200,
                                    !.message = "OK"]
          /\ UNCHANGED << urlDatabase, expiryDatabase, heap, reqs >>
     ELSE IF IsApiPath(shortcode)
     THEN /\ lastOp' = [NoOp EXCEPT !.op = "resolveDone",
                                    !.shortcode = shortcode, !.status = 404,
                                    !.message = "Route not found"]
          /\ UNCHANGED << urlDatabase, expiryDatabase, heap, reqs >>
     ELSE IF ~Has(shortcode)
     THEN LET req == [Idle EXCEPT !.kind = "resolve", !.pc = "await", !.status = 404,
                                  !.message = "Shortcode not found"]
          IN /\ reqs' = Suspend(req)
             /\ lastOp' = [NoOp EXCEPT !.op = "resolveStart", !.req = req,
                                       !.shortcode = shortcode]
             /\ UNCHANGED << urlDatabase, expiryDatabase, heap >>
     ELSE IF isExpired(shortcode)
     THEN LET req == [Idle EXCEPT !.kind = "resolve", !.pc = "await", !.status = 410,
                                  !.message = "Short URL has expired"]
          IN /\ urlDatabase' = MapDelete(urlDatabase, shortcode)
             /\ expiryDatabase' = MapDelete(expiryDatabase, shortcode)
             /\ reqs' = Suspend(req)
             /\ lastOp' = [NoOp EXCEPT !.op = "resolveStart", !.req = req,
                                       !.shortcode = shortcode]
             /\ UNCHANGED heap
     ELSE LET req == [Idle EXCEPT !.kind = "resolve", !.pc = "await", !.status = 302,
                                  !.shortcode = shortcode,
                                  !.urlData = urlDatabase[shortcode]]
          IN /\ heap[urlDatabase[shortcode]].accessCount < MaxAccess
             /\ heap' = Increment(heap, urlDatabase[shortcode])
             /\ reqs' = Suspend(req)
             /\ lastOp' = [NoOp EXCEPT !.op = "resolveStart", !.req = req,
                                       !.shortcode = shortcode]
             /\ UNCHANGED << urlDatabase, expiryDatabase >>
  /\ UNCHANGED << now, spinning, redirects >>

\* res.redirect(302, urlData.originalUrl), line 256, or the pending error.
ResolveFinish(req) ==
  /\ ~spinning
  /\ req.kind = "resolve" /\ req.pc = "await"
  /\ reqs' = Resume(req)
  /\ lastOp' =
       IF req.status = 302
       THEN [NoOp EXCEPT !.op = "resolveDone", !.status = 302,
                         !.shortcode = req.shortcode,
                         !.urlData = req.urlData,
                         !.url = heap[req.urlData].originalUrl]
       ELSE [NoOp EXCEPT !.op = "resolveDone", !.status = req.status,
                         !.message = req.message]
  /\ redirects' = IF req.status = 302
                  THEN [redirects EXCEPT ![req.urlData] = @ + 1]
                  ELSE redirects
  /\ UNCHANGED << now, urlDatabase, expiryDatabase, heap, spinning >>

\* ---------------------------------------------------- cleanupExpiredUrls
\* Mutant: the loop deleting nothing.
ExpiredCodesNone == {}
\* Mutant: the loop deleting every entry that has a valid expiry.
ExpiredCodesAll == { shortcode \in DOMAIN expiryDatabase : expiryDatabase[shortcode].valid }
\* The shortcodes the loop of lines 62-68 deletes: now > new Date(expiryTime).
ExpiredCodes ==
  { shortcode \in DOMAIN expiryDatabase : DateGT(NewDate(now), expiryDatabase[shortcode]) }

\* Mutant: the cleanup counting what it deletes and returning the count.
CleanupReturnsCount(deleted) == Number(Cardinality(deleted))
\* What cleanupExpiredUrls returns: it has no return statement.
CleanupReturn(deleted) == Undefined

\* Mutant: the cleanup deleting from urlDatabase only.
cleanupUrlsOnly ==
  /\ ~spinning
  /\ urlDatabase' = [ c \in DOMAIN urlDatabase \ ExpiredCodes |-> urlDatabase[c] ]
  /\ lastOp' = [NoOp EXCEPT !.op = "cleanup", !.evicted = ExpiredCodes,
                            !.logged = Cardinality(ExpiredCodes),
                            !.ret = CleanupReturn(ExpiredCodes)]
  /\ UNCHANGED << now, expiryDatabase, heap, reqs, spinning, redirects >>

\* The timer callback of line 72: one synchronous pass over expiryDatabase,
\* with one log line per deleted shortcode (the log call is not awaited).
cleanupExpiredUrls ==
  /\ ~spinning
  /\ urlDatabase' = [ c \in DOMAIN urlDatabase \ ExpiredCodes |-> urlDatabase[c] ]
  /\ expiryDatabase' = [ c \in DOMAIN expiryDatabase \ ExpiredCodes |-> expiryDatabase[c] ]
  /\ lastOp' = [NoOp EXCEPT !.op = "cleanup", !.evicted = ExpiredCodes,
                            !.logged = Cardinality(ExpiredCodes),
                            !.ret = CleanupReturn(ExpiredCodes)]
  /\ UNCHANGED << now, heap, reqs, spinning, redirects >>

\* ------------------------------------------------------------------ clock
Tick ==
  /\ \E t \in TimePoints : t > now /\ now' = t
  /\ lastOp' = [NoOp EXCEPT !.op = "tick"]
  /\ UNCHANGED << urlDatabase, expiryDatabase, heap, reqs, spinning, redirects >>

\* ------------------------------------------------------------ the system
\* The POST bodies the model sends: every accepted shape, every rejection, and
\* bodies with two or three bad fields (they decide the order of the checks).
Num(n) == [given |-> TRUE, num |-> n, den |-> 1]
Str(c) == [given |-> TRUE, val |-> c]
Bodies ==
  { Body(UrlHttps, Num(1), Str(CodeAbc)),
    Body(UrlHttps, Num(1), NoShortcode),
    Body(UrlHttps, Num(1), Str(CodeHealth)),
    Body(UrlHttps, Num(1), Str(CodeEmpty)),
    Body(UrlHttp, NoValidity, Str(CodeAbc)),
    Body(UrlHttps, Num(BigValidity), Str(CodeAbc)),
    Body(UrlEmpty, Num(1), Str(CodeAbc)),
    Body(UrlNotAUrl, Num(1), Str(CodeAbc)),
    Body(UrlFtp, Num(1), Str(CodeAbc)),
    Body(UrlNotAUrl, Num(0), Str(CodeTooShort)),
    Body(UrlHttps, Num(0), Str(CodeAbc)),
    Body(UrlHttps, Num(-1), Str(CodeAbc)),
    Body(UrlHttps, [given |-> TRUE, num |-> 3, den |-> 2], Str(CodeAbc)),
    Body(UrlHttps, Num(0), Str(CodeTooShort)),
    Body(UrlHttps, Num(1), Str(CodeTooShort)),
    Body(UrlHttps, Num(1), Str(CodeBadChar)),
    Body(UrlHttps, Num(1), Str(CodeTooLong)) }

\* The bodies and lookups sent while other requests are in flight.
ConcurrentBodies ==
  { Body(UrlHttps, Num(1), Str(CodeAbc)),
    Body(UrlHttp, Num(1), NoShortcode),
    Body(UrlNotAUrl, Num(0), Str(CodeTooShort)) }
ConcurrentLookups == { CodeAbc, CodeHealth, generateShortcode(<<0, 0, 0, 0, 0, 0>>) }

\* Up to MaxInFlight requests in flight, interleaved at their awaits, with the
\* timer and the clock.
Next ==
  \/ \E body \in ConcurrentBodies : CreateStart(MaxInFlight, body)
  \/ GenerateAgain
  \/ \E req \in InFlight : CreateFinish(req)
  \/ \E shortcode \in ConcurrentLookups : StatsStart(MaxInFlight, shortcode)
  \/ \E req \in InFlight : StatsFinish(req)
  \/ \E shortcode \in ConcurrentLookups : ResolveStart(MaxInFlight, shortcode)
  \/ \E req \in InFlight : ResolveFinish(req)
  \/ cleanupExpiredUrls
  \/ Tick

Spec == Init /\ [][Next]_vars

\* One request at a time (a client that waits for each response), with every
\* body of Bodies; the timer and the clock still run between a handler's
\* segments.
SeqNext ==
  \/ \E body \in Bodies : CreateStart(1, body)
  \/ GenerateAgain
  \/ \E req \in InFlight : CreateFinish(req)
  \/ \E shortcode \in LookupCodes : StatsStart(1, shortcode)
  \/ \E req \in InFlight : StatsFinish(req)
  \/ \E shortcode \in LookupCodes : ResolveStart(1, shortcode)
  \/ \E req \in InFlight : ResolveFinish(req)
  \/ cleanupExpiredUrls
  \/ Tick

SeqSpec == Init /\ [][SeqNext]_vars

\* ---------------------------------------------------------------- fairness
\* The handlers that suspend at an await.
HandlerKinds == { "create", "stats", "resolve" }

\* The continuation of a suspended handler of the given kind.
FinishKind(kind) ==
  \E req \in InFlight :
    /\ req.kind = kind
    /\ \/ CreateFinish(req)
       \/ StatsFinish(req)
       \/ ResolveFinish(req)

\* The iteration of the do-while that draws a code the store does not hold.
GenerateFree == GenerateAgain /\ ~spinning'

\* What the runtime guarantees. log() (lines 9-12) is an async function with no
\* await of its own, so each `await log(...)` is settled at once and its
\* continuation is run as soon as the event loop is free; the interval timer of
\* line 72 keeps firing and its callback too runs when the event loop is free
\* (strong fairness: the generation loop may hold the event loop again and
\* again, but each time for a while only). Math.random() does not avoid the
\* free codes for ever: while the loop runs, the draw of a free code stays
\* possible and so eventually happens.
Fairness ==
  /\ \A kind \in HandlerKinds : SF_vars(FinishKind(kind))
  /\ SF_vars(cleanupExpiredUrls)
  /\ WF_vars(GenerateFree)

\* The requests sent under the fairness conditions: a create with a requested
\* code, a create that generates one, and the lookups of the requested code.
LiveBodies ==
  { Body(UrlHttps, Num(1), Str(CodeAbc)),
    Body(UrlHttp, Num(1), NoShortcode) }
LiveLookups == { CodeAbc }

LiveNext ==
  \/ \E body \in LiveBodies : CreateStart(MaxInFlight, body)
  \/ GenerateAgain
  \/ \E req \in InFlight : CreateFinish(req)
  \/ \E shortcode \in LiveLookups : StatsStart(MaxInFlight, shortcode)
  \/ \E req \in InFlight : StatsFinish(req)
  \/ \E shortcode \in LiveLookups : ResolveStart(MaxInFlight, shortcode)
  \/ \E req \in InFlight : ResolveFinish(req)
  \/ cleanupExpiredUrls
  \/ Tick

LiveSpec == Init /\ [][LiveNext]_vars /\ Fairness

\* ============================================================== claims
\* Helpers of the statements below.

\* The claims' reading of "the current time is greater than expiresAt".
PastExpiry(t, expiresAt) == expiresAt.valid /\ t > expiresAt.ms

\* A body that passes the three input checks with a requested code.
AcceptedWithCode(body) ==
  /\ isValidUrl(body.url)
  /\ ~ValidityRejected(ValidityOf(body.validity))
  /\ body.shortcode.given
  /\ isValidShortcode(body.shortcode.val)

\* C1 (as stated): after a create that succeeded (201) for a code, a resolve of
\* that code issued at once, while the entry is in the store and not past its
\* expiry, is on its way to a 302 with exactly the URL given to create; and a
\* getStats answered before any redirect of the entry reports accessCount 0.
C1_CreateThenResolve ==
  /\ [][ ( /\ lastOp.op = "createDone" /\ lastOp.status = 201
           /\ lastOp'.op \in { "resolveStart", "resolveDone", "health" }
           /\ lastOp'.shortcode = lastOp.shortcode
           /\ Has(lastOp.shortcode)
           /\ ~PastExpiry(now, expiryDatabase[lastOp.shortcode]) )
         => ( /\ lastOp'.op = "resolveStart"
              /\ lastOp'.req.status = 302
              /\ heap'[lastOp'.req.urlData].originalUrl = lastOp.url ) ]_vars
  /\ []( ( /\ lastOp.op = "statsDone" /\ lastOp.status = 200
           /\ redirects[lastOp.urlData] = 0
           /\ \A req \in InFlight : ~(req.kind = "resolve" /\ req.urlData = lastOp.urlData) )
         => lastOp.accessCount = 0 )

\* C2: a getStats answered with 200 reports as accessCount the number of
\* redirects (302 responses) sent so far for the entry it read, whatever
\* getStats calls, creates, cleanups and lookups of other codes came between.
C2_StatsCountsRedirects ==
  (lastOp.op = "statsDone" /\ lastOp.status = 200)
    => lastOp.accessCount = redirects[lastOp.urlData]

\* C2 witness: a getStats reported 2 after two redirects of its entry.
C2_Witness ==
  /\ lastOp.op = "statsDone" /\ lastOp.status = 200
  /\ lastOp.accessCount = 2
  /\ redirects[lastOp.urlData] = 2

\* The number of resolve handlers suspended between their increment of the
\* entry and their redirect.
PendingRedirects(urlData) ==
  LET pending == { req \in InFlight : req.kind = "resolve" /\ req.pc = "await"
                                        /\ req.status = 302 /\ req.urlData = urlData }
  IN BagCardinality([ req \in pending |-> reqs[req] ])

\* C3: with resolves of one entry in flight together, the entry's accessCount
\* is the redirects already sent plus one for each resolve still suspended
\* before its redirect: every resolve counted once, none lost.
C3_NoLostIncrement ==
  \A urlData \in 1..Len(heap) :
    heap[urlData].accessCount = redirects[urlData] + PendingRedirects(urlData)

\* C3 witness: two resolves of the same entry are suspended at once and the
\* entry counts both.
C3_Witness ==
  \E urlData \in 1..Len(heap) :
    /\ PendingRedirects(urlData) = 2
    /\ heap[urlData].accessCount = 2

\* The step just taken was a segment of POST /shorturls that stored an entry.
Stored == lastOp'.op = "createStart" /\ lastOp'.urlData # 0

\* C4: a segment of create never touches an entry that is in the store (same
\* object, URL, createdAt, accessCount and expiry before and after); a create
\* that passes the input checks and requests a code the store holds is
\* answered 409; and a code is absent from both maps when create inserts it.
C4_CreateNeverReplaces ==
  [][ (lastOp'.op \in { "createStart", "generateAgain" })
      => ( /\ \A c \in DOMAIN urlDatabase :
                /\ c \in DOMAIN urlDatabase' /\ c \in DOMAIN expiryDatabase'
                /\ urlDatabase'[c] = urlDatabase[c]
                /\ expiryDatabase'[c] = expiryDatabase[c]
                /\ heap'[urlDatabase[c]] = heap[urlDatabase[c]]
           /\ ( (AcceptedWithCode(lastOp'.body) /\ lastOp'.body.shortcode.val \in DOMAIN urlDatabase)
                => (lastOp'.req.status = 409 /\ lastOp'.urlData = 0) )
           /\ ( Stored => ( /\ lastOp'.shortcode \notin DOMAIN urlDatabase
                            /\ lastOp'.shortcode \notin DOMAIN expiryDatabase ) ) ) ]_vars

\* C4 witness: a create of a code was answered 409 while the create that
\* inserted that code is still suspended before its own response.
C4_Witness ==
  /\ lastOp.op = "createStart"
  /\ lastOp.req.status = 409
  /\ \E req \in InFlight :
       /\ req.kind = "create" /\ req.status = 201
       /\ req.shortcode = lastOp.body.shortcode.val
       /\ Has(req.shortcode)

\* C5 (as stated): a create that passes the input checks and requests a code
\* that no unexpired entry holds does not fail with CodeConflict (409).
C5_StaleEntryDoesNotBlock ==
  [][ ( /\ lastOp'.op = "createStart"
        /\ AcceptedWithCode(lastOp'.body)
        /\ ( \/ lastOp'.body.shortcode.val \notin DOMAIN urlDatabase
             \/ PastExpiry(now, expiryDatabase[lastOp'.body.shortcode.val]) ) )
      => lastOp'.req.status # 409 ]_vars

\* C6: a getStats or resolve that looks its code up (every one but the
\* GET /health and GET /shorturls paths, which are answered before any lookup)
\* and finds an entry succeeds iff the clock is not greater than the entry's
\* expiry; past the expiry it is answered 410, carries no entry data, and the
\* code has left both maps when the segment ends; a code that is in neither map
\* is answered 404.
C6_ExpiryDecidesLookup ==
  [][ (lastOp'.op \in { "statsStart", "resolveStart" })
      => LET c == lastOp'.shortcode
             req == lastOp'.req
         IN  /\ (c \in DOMAIN urlDatabase /\ ~PastExpiry(now, expiryDatabase[c]))
                  => ( /\ req.status = (IF lastOp'.op = "statsStart" THEN 200 ELSE 302)
                       /\ req.urlData = urlDatabase[c]
                       /\ c \in DOMAIN urlDatabase' /\ c \in DOMAIN expiryDatabase' )
             /\ (c \in DOMAIN urlDatabase /\ PastExpiry(now, expiryDatabase[c]))
                  => ( /\ req.status = 410
                       /\ req.urlData = 0
                       /\ c \notin DOMAIN urlDatabase' /\ c \notin DOMAIN expiryDatabase' )
             /\ (c \notin DOMAIN urlDatabase) => (req.status = 404 /\ req.urlData = 0) ]_vars

\* C6 witness: a lookup found its entry past the expiry: it is on its way to a
\* 410 and the code is in neither map.
C6_Witness ==
  /\ lastOp.op \in { "statsStart", "resolveStart" }
  /\ lastOp.req.status = 410
  /\ lastOp.shortcode \notin DOMAIN urlDatabase
  /\ lastOp.shortcode \notin DOMAIN expiryDatabase

\* The codes whose expiry is earlier than t.
EarlierThan(t) == { c \in DOMAIN expiryDatabase : PastExpiry(t, expiryDatabase[c]) }

\* C7: one run of the cleanup removes from both maps exactly the codes whose
\* expiry is earlier than the clock and leaves every other entry, the entry
\* objects and the suspended handlers as they were; a run right after a run,
\* or on a store with nothing expired, removes nothing.
C7_SweepRemovesExactlyExpired ==
  [][ (lastOp'.op = "cleanup")
      => ( /\ DOMAIN urlDatabase' = DOMAIN urlDatabase \ EarlierThan(now)
           /\ DOMAIN expiryDatabase' = DOMAIN expiryDatabase \ EarlierThan(now)
           /\ \A c \in DOMAIN urlDatabase' :
                urlDatabase'[c] = urlDatabase[c] /\ expiryDatabase'[c] = expiryDatabase[c]
           /\ heap' = heap
           /\ reqs' = reqs
           /\ (lastOp.op = "cleanup" \/ EarlierThan(now) = {})
                => (urlDatabase' = urlDatabase /\ expiryDatabase' = expiryDatabase) ) ]_vars

\* C7 witness: a cleanup ran on a store holding an expired and a live entry,
\* removed the one and kept the other.
C7_Witness ==
  /\ lastOp.op = "cleanup"
  /\ lastOp.evicted # {}
  /\ DOMAIN urlDatabase # {}

C9_StatsChangesNothing ==
  [][ ( \/ (lastOp'.op = "statsStart" /\ lastOp'.req.status = 200)
        \/ (lastOp'.op = "statsDone" /\ lastOp'.status = 200) )
      => ( /\ urlDatabase' = urlDatabase
           /\ expiryDatabase' = expiryDatabase
           /\ heap' = heap ) ]_vars

\* C9 witness: a getStats reported the count 1 of an entry and the entry's
\* count is still 1.
C9_Witness ==
  /\ lastOp.op = "statsDone" /\ lastOp.status = 200
  /\ lastOp.accessCount = 1
  /\ heap[lastOp.urlData].accessCount = 1

\* The error kind the claim gives a body, "none" when it names none.
ClaimedRejection(body) ==
  IF ~isValidUrl(body.url) THEN "InvalidUrl"
  ELSE IF ValidityRejected(ValidityOf(body.validity)) THEN "InvalidValidity"
  ELSE IF body.shortcode.given /\ ~isValidShortcode(body.shortcode.val) THEN "InvalidCodeFormat"
  ELSE "none"

\* The error kind of a 400 response of POST /shorturls, by its message.
RejectionSent(req) ==
  IF req.status # 400 THEN "none"
  ELSE IF req.message \in { "URL is required", "Invalid URL format" } THEN "InvalidUrl"
  ELSE IF req.message = "Validity must be a positive integer representing minutes"
    THEN "InvalidValidity"
  ELSE "InvalidCodeFormat"

\* C10 (as stated): create answers a bad URL with InvalidUrl, else a bad
\* validity with InvalidValidity, else any supplied code that fails the format
\* check with InvalidCodeFormat, and in these cases changes neither map.
C10_RejectsInOrder ==
  [][ (lastOp'.op \in { "createStart", "generateAgain" }
       /\ ClaimedRejection(lastOp'.body) # "none")
      => ( /\ RejectionSent(lastOp'.req) = ClaimedRejection(lastOp'.body)
           /\ urlDatabase' = urlDatabase
           /\ expiryDatabase' = expiryDatabase ) ]_vars

\* The segment that answers a handler of the given kind.
DoneOp(kind) ==
  CASE kind = "create" -> "createDone"
    [] kind = "stats" -> "statsDone"
    [] kind = "resolve" -> "resolveDone"

\* C11: no operation blocks for ever. The generation loop of a create without
\* a requested code always ends; every handler suspended at its await gets to
\* send its response; and the cleanup keeps running, whatever else is going on.
C11_NothingBlocksForever ==
  /\ spinning ~> ~spinning
  /\ \A kind \in HandlerKinds :
       (\E req \in InFlight : req.kind = kind /\ req.pc = "await")
         ~> (lastOp.op = DoneOp(kind))
  /\ []<>(lastOp.op = "cleanup")

\* C11 witness: the generation loop has just drawn a code that is taken and
\* goes round again while another request is suspended at its await.
C11_Witness ==
  /\ spinning
  /\ lastOp.op = "generateAgain"
  /\ \E req \in InFlight : req.pc = "await"

\* The codes an entry can be stored under by the requests of LiveNext.
LiveCodes == { CodeAbc } \cup { generateShortcode(draws) : draws \in GenDraws }

\* C12: with the timer firing again and again, an entry that is in the store
\* when the clock is past its expiry leaves both maps, whether or not a
\* getStats or resolve is ever sent for its code.
C12_ExpiredEntryLeaves ==
  \A c \in LiveCodes :
    (c \in DOMAIN urlDatabase /\ c \in DOMAIN expiryDatabase
       /\ PastExpiry(now, expiryDatabase[c]))
      ~> (c \notin DOMAIN urlDatabase /\ c \notin DOMAIN expiryDatabase)

\* C12 witness: the cleanup removed an expired entry that no resolve had ever
\* reached, with no request in flight.
C12_Witness ==
  /\ lastOp.op = "cleanup"
  /\ lastOp.evicted # {}
  /\ reqs = EmptyBag
  /\ \A urlData \in 1..Len(heap) : heap[urlData].accessCount = 0

\* The validity, in minutes, that a POST body asks for.
Minutes(body) == ValidityOf(body.validity).num \div ValidityOf(body.validity).den

\* C13 (as stated): the entry a create inserts has expiresAt = createdAt +
\* validity minutes, and so expiresAt > createdAt.
C13_ExpiryIsCreatedPlusValidity ==
  [][ Stored
      => LET createdAt == heap'[lastOp'.urlData].createdAt
             expiresAt == expiryDatabase'[lastOp'.shortcode]
         IN  /\ expiresAt.valid
             /\ expiresAt.ms = createdAt.ms + Minutes(lastOp'.body) * MsPerMinute
             /\ expiresAt.ms > createdAt.ms ]_vars

\* The entry objects the store holds: those some code of urlDatabase maps to.
InStore(urls) == { urls[c] : c \in DOMAIN urls }

\* C14: every run of the GET /:shortcode handler (GET /health never reaches
\* it) ends in one of two ways. Its first segment either adds exactly 1 to the
\* count of the entry its code maps to, that entry being in the store and not
\* past its expiry, and is then answered 302 with that entry's URL; or it adds
\* nothing and is answered 404 or 410. No step of any operation changes the
\* count of an entry object that is not in the store, and after every step the
\* two maps hold the same codes.
C14_ResolveIncrementsOrFails ==
  [][ /\ (lastOp'.op = "resolveStart")
          => LET c == lastOp'.shortcode
                 req == lastOp'.req
             IN  \/ /\ req.status = 302
                    /\ c \in DOMAIN urlDatabase /\ c \in DOMAIN expiryDatabase
                    /\ ~PastExpiry(now, expiryDatabase[c])
                    /\ req.urlData = urlDatabase[c]
                    /\ heap' = [heap EXCEPT ![urlDatabase[c]].accessCount = @ + 1]
                    /\ c \in DOMAIN urlDatabase' /\ urlDatabase'[c] = urlDatabase[c]
                 \/ /\ req.status \in { 404, 410 }
                    /\ heap' = heap
      /\ (lastOp'.op = "resolveDone")
          => /\ heap' = heap
             /\ \/ /\ lastOp'.status = 302
                    /\ lastOp'.url = heap[lastOp'.urlData].originalUrl
                \/ lastOp'.status \in { 404, 410 }
      /\ \A urlData \in 1..Len(heap) :
           (heap'[urlData].accessCount # heap[urlData].accessCount)
             => (urlData \in InStore(urlDatabase) /\ urlData \in InStore(urlDatabase'))
      /\ DOMAIN urlDatabase' = DOMAIN expiryDatabase' ]_vars

\* C14 witness: the cleanup has just evicted the entry of a resolve that is
\* suspended between its increment and its redirect.
C14_Witness ==
  /\ lastOp.op = "cleanup"
  /\ \E req \in InFlight :
       /\ req.kind = "resolve" /\ req.status = 302
       /\ req.shortcode \in lastOp.evicted
       /\ req.urlData \notin InStore(urlDatabase)
       /\ heap[req.urlData].accessCount >= 1

\* The step just taken was the continuation of the suspended handler req.
Resumed(req) == req \in InFlight /\ reqs' = Resume(req)

\* C15: a getStats or resolve that passed its expiry check and is suspended at
\* its await completes with its success response, carrying the fields of the
\* entry object it checked, whether or not that entry is still in the store
\* when it resumes; it never ends in the 500 of the catch block.
C15_InProgressLookupCompletes ==
  [][ /\ (lastOp'.op = "statsDone")
          => /\ lastOp'.status # 500
             /\ \E req \in InFlight :
                  /\ Resumed(req) /\ req.kind = "stats"
                  /\ (req.status = 200)
                       => /\ lastOp'.status = 200
                          /\ lastOp'.shortcode = req.shortcode
                          /\ lastOp'.url = heap[req.urlData].originalUrl
                          /\ lastOp'.createdAt = heap[req.urlData].createdAt
                          /\ lastOp'.createdAt.valid
                          /\ lastOp'.expiry = req.expiryTime
                          /\ lastOp'.accessCount = heap[req.urlData].accessCount
      /\ (lastOp'.op = "resolveDone" /\ ~IsApiPath(lastOp'.shortcode))
          => /\ lastOp'.status # 500
             /\ \E req \in InFlight :
                  /\ Resumed(req) /\ req.kind = "resolve"
                  /\ (req.status = 302)
                       => /\ lastOp'.status = 302
                          /\ lastOp'.url = heap[req.urlData].originalUrl ]_vars

\* C15 witness: a getStats or resolve has just sent its success response for
\* an entry that left the store while the handler was suspended.
C15_Witness ==
  /\ lastOp.op \in { "statsDone", "resolveDone" }
  /\ lastOp.status \in { 200, 302 }
  /\ lastOp.urlData \notin InStore(urlDatabase)
  /\ lastOp.shortcode \notin DOMAIN urlDatabase

\* C16: in every step, an entry that is in the store before and after it is
\* the same object with the same URL, createdAt and expiry, and its accessCount
\* is the same or greater by exactly 1; the count changes only in the first
\* segment of a resolve of that entry's own code that is answered 302, and
\* that step changes no other entry object.
C16_EntryFieldsAreStable ==
  [][ \A c \in DOMAIN urlDatabase \cap DOMAIN urlDatabase' :
        LET before == heap[urlDatabase[c]]
            after == heap'[urlDatabase'[c]]
        IN  /\ urlDatabase'[c] = urlDatabase[c]
            /\ after.originalUrl = before.originalUrl
            /\ after.createdAt = before.createdAt
            /\ expiryDatabase'[c] = expiryDatabase[c]
            /\ after.accessCount \in { before.accessCount, before.accessCount + 1 }
            /\ (after.accessCount # before.accessCount)
                 => /\ lastOp'.op = "resolveStart"
                    /\ lastOp'.shortcode = c
                    /\ lastOp'.req.status = 302
                    /\ \A urlData \in 1..Len(heap) :
                         urlData # urlDatabase[c] => heap'[urlData] = heap[urlData] ]_vars

\* C16 witness: a resolve has just raised the count of its entry from 1 to 2
\* while a second entry is in the store.
C16_Witness ==
  /\ lastOp.op = "resolveStart"
  /\ lastOp.req.status = 302
  /\ heap[lastOp.req.urlData].accessCount = 2
  /\ Cardinality(DOMAIN urlDatabase) = 2

\* C17: in every state (between any two segments of the handlers and the
\* cleanup) urlDatabase and expiryDatabase hold exactly the same codes.
C17_MapsHoldSameCodes == DOMAIN urlDatabase = DOMAIN expiryDatabase

\* C17 witness: a lookup has just deleted its expired entry from both maps
\* while another entry stays in both, with a second handler suspended.
C17_Witness ==
  /\ lastOp.op \in { "statsStart", "resolveStart" }
  /\ lastOp.req.status = 410
  /\ BagCardinality(reqs) = 2
  /\ Cardinality(DOMAIN urlDatabase) = 1
  /\ Cardinality(DOMAIN expiryDatabase) = 1

\* C18 (as stated): a create that is on its way to an error response of any
\* kind (400, 409 or the 500 of the catch block) has left both maps and every
\* entry object as they were.
C18_FailedCreateStoresNothing ==
  [][ ( /\ lastOp'.op = "createStart"
        /\ lastOp'.req.status # 201 )
      => ( /\ urlDatabase' = urlDatabase
           /\ expiryDatabase' = expiryDatabase
           /\ heap' = heap ) ]_vars

====
